---- MODULE Spec2Model ----
(***************************************************************************)
(* Model of the two patch scripts fix_note.py (NoteFixer) and fix_repo.py  *)
(* (RepoFixer).                                                            *)
(*                                                                         *)
(* A text is a sequence of tokens.  A token is a piece of the text that    *)
(* the two patterns treat as a unit: a literal of a pattern, one character *)
(* of a character class the patterns distinguish, or a run of characters   *)
(* that all fall into the same classes.                                    *)
(*                                                                         *)
(*   "N"     Note {                                                        *)
(*   "T"     note_type,                  (shorthand field)                 *)
(*   "V"     note_type: NoteType::Text   (field with an explicit value)    *)
(*   "C"     created_at: row.get("created_at"),                            *)
(*   "R"     Repo {                                                        *)
(*   "TG"    tags:_       (the key, with the blank after the colon)        *)
(*   "CK"    created_at:_ (the key, with the blank after the colon)        *)
(*   "NK"    name:_       (the key of some other field)                    *)
(*   "x"     a value or other run without comma, newline, brace or blank   *)
(*   ","     a comma          "}"   a closing brace                        *)
(*   "SP"    a blank          "LF"  \n            "CR"  \r                 *)
(*   "IND20" twenty blanks    "IND8" eight blanks                          *)
(*   "PK"    project_ids: vec![]                                           *)
(*   "CM"    // Empty by default - relationships managed separately        *)
(***************************************************************************)
EXTENDS Integers, Sequences, FiniteSets, TLC

VARIABLES nsIn, nsOut,          \* NoteFixer's substitution: input text, results of successive applications
          rsIn, rsOut,          \* RepoFixer's substitution: input text, results of successive applications
          noteFile, notePc, noteWrites, noteOut,   \* a NoteFixer run
          fs, linesep, pc, idx, out, reads, writes \* a RepoFixer run

vars == <<nsIn, nsOut, rsIn, rsOut, noteFile, notePc, noteWrites, noteOut,
          fs, linesep, pc, idx, out, reads, writes>>

noteSubVars == <<nsIn, nsOut>>
repoSubVars == <<rsIn, rsOut>>
noteRunVars == <<noteFile, notePc, noteWrites, noteOut>>
repoRunVars == <<fs, pc, idx, out, reads, writes>>

----------------------------------------------------------------------------
(* Bounds *)

MaxNoteChunks == 4
MaxRepoChunks == 4
MaxApply == 2
MaxNoteFileChunks == 3
MaxRepoFileChunks == 2

----------------------------------------------------------------------------
(* The regular expression engine (re.sub with flags=re.DOTALL) *)

\* character classes used by the two patterns
InClass(cls, t) ==
    CASE cls = "space"      -> t \in {"SP", "LF", "CR", "IND20", "IND8"}
      [] cls = "notclose"   -> t # "}"
      [] cls = "notcommanl" -> t \notin {",", "LF"}

Lit(t)   == [kind |-> "lit",  arg |-> t]
Star(c)  == [kind |-> "star", arg |-> c]
Opt(t)   == [kind |-> "opt",  arg |-> t]

\* number of consecutive tokens of class cls starting at position i
RECURSIVE Run(_, _, _)
Run(cls, text, i) ==
    IF i <= Len(text) /\ InClass(cls, text[i])
    THEN 1 + Run(cls, text, i + 1)
    ELSE 0

\* Backtracking match of pat[p..] at position i of text.  The result is <<>>
\* when there is no match; otherwise its k-th element is the position where
\* item p+k-1 starts and its last element is the position after the match.
\* Quantifiers are greedy: the longest repetition is tried first.
RECURSIVE MatchHere(_, _, _, _)
RECURSIVE TryStar(_, _, _, _, _)
MatchHere(pat, p, text, i) ==
    IF p > Len(pat) THEN <<i>>
    ELSE LET it == pat[p] IN
      CASE it.kind = "lit" ->
             IF i <= Len(text) /\ text[i] = it.arg
             THEN LET r == MatchHere(pat, p + 1, text, i + 1)
                  IN IF r = <<>> THEN <<>> ELSE <<i>> \o r
             ELSE <<>>
        [] it.kind = "star" ->
             TryStar(pat, p, text, i, Run(it.arg, text, i))
        [] it.kind = "opt" ->
             LET with == IF i <= Len(text) /\ text[i] = it.arg
                         THEN MatchHere(pat, p + 1, text, i + 1)
                         ELSE <<>>
                 without == MatchHere(pat, p + 1, text, i)
             IN IF with # <<>> THEN <<i>> \o with
                ELSE IF without # <<>> THEN <<i>> \o without
                ELSE <<>>

TryStar(pat, p, text, i, n) ==
    LET r == MatchHere(pat, p + 1, text, i + n)
    IN IF r # <<>> THEN <<i>> \o r
       ELSE IF n = 0 THEN <<>>
       ELSE TryStar(pat, p, text, i, n - 1)

Slice(text, a, b) == [k \in 1..(b - a) |-> text[a + k - 1]]

\* group 1 is pat[1..g-1], group 2 is pat[g..]
Group1(text, m, g) == Slice(text, m[1], m[g])
Group2(text, m, g) == Slice(text, m[g], m[Len(m)])

\* The matches re.sub finds: leftmost first, not overlapping, the scan going on
\* at the end of the previous match.
RECURSIVE FindAll(_, _, _)
FindAll(pat, text, pos) ==
    IF pos > Len(text) THEN <<>>
    ELSE LET m == MatchHere(pat, 1, text, pos)
         IN IF m # <<>> THEN <<m>> \o FindAll(pat, text, m[Len(m)])
            ELSE FindAll(pat, text, pos + 1)

----------------------------------------------------------------------------
(* fix_note.py *)

\* (Note \{[^}]*,\s*)(created_at: ...): anchored on any comma, not on note_type,
note_pattern_any_field ==
    <<Lit("N"), Star("notclose"), Lit(","), Star("space"), Lit("C")>>

\* (Note \{[^}]*note_type,\s*)(created_at: row\.get\("created_at"\),)
note_pattern ==
    <<Lit("N"), Star("notclose"), Lit("T"), Star("space"), Lit("C")>>
NoteGroup2 == 5

NoteFragment == <<"PK", ",", "SP", "CM", "LF", "IND20">>

\* the fragment put after the created_at assignment instead of before it
note_replace_func_after(prefix, created_at_line) ==
    prefix \o created_at_line \o NoteFragment

note_replace_func(prefix, created_at_line) ==
    prefix \o NoteFragment \o created_at_line

RECURSIVE NoteSubFrom(_, _)
NoteSubFrom(text, pos) ==
    IF pos > Len(text) THEN <<>>
    ELSE LET m == MatchHere(note_pattern, 1, text, pos)
         IN IF m # <<>>
            THEN note_replace_func(Group1(text, m, NoteGroup2), Group2(text, m, NoteGroup2))
                   \o NoteSubFrom(text, m[Len(m)])
            ELSE <<text[pos]>> \o NoteSubFrom(text, pos + 1)

NoteSub(text) == NoteSubFrom(text, 1)

----------------------------------------------------------------------------
(* fix_repo.py: the substitution *)

\* (Repo \{[^}]*tags: [^,\n]*,?[^}]*)(created_at: [^,\n]*,): created_at may
\* follow the tags field anywhere in the construction
repo_pattern_eventually ==
    <<Lit("R"), Star("notclose"), Lit("TG"), Star("notcommanl"), Opt(","),
      Star("notclose"), Lit("CK"), Star("notcommanl"), Lit(",")>>

\* (Repo \{[^}]*tags: [^,\n]*,?\s*)(created_at: [^,\n]*,)
repo_pattern ==
    <<Lit("R"), Star("notclose"), Lit("TG"), Star("notcommanl"), Opt(","),
      Star("space"), Lit("CK"), Star("notcommanl"), Lit(",")>>
RepoGroup2 == 7

RepoFragment == <<"PK", ",", "SP", "CM", "LF", "IND8">>

repo_replace_func(prefix, created_at_line) ==
    prefix \o RepoFragment \o created_at_line

RECURSIVE RepoSubFrom(_, _)
RepoSubFrom(text, pos) ==
    IF pos > Len(text) THEN <<>>
    ELSE LET m == MatchHere(repo_pattern, 1, text, pos)
         IN IF m # <<>>
            THEN repo_replace_func(Group1(text, m, RepoGroup2), Group2(text, m, RepoGroup2))
                   \o RepoSubFrom(text, m[Len(m)])
            ELSE <<text[pos]>> \o RepoSubFrom(text, pos + 1)

RepoSub(text) == RepoSubFrom(text, 1)

----------------------------------------------------------------------------
(* Input texts *)

\* the texts made of at most n chunks
RECURSIVE ChunkTexts(_, _)
ChunkTexts(chunks, n) ==
    IF n = 0 THEN {<<>>}
    ELSE LET S == ChunkTexts(chunks, n - 1)
         IN S \cup {s \o c : s \in S, c \in chunks}

\* Note { note_type, created_at: row.get("created_at"),
NoteCons == <<"N", "T", "SP", "C">>

NoteChunks == {<<"N">>, <<"T">>, <<"C">>, <<"SP">>, <<"}">>, <<"x", ",">>, NoteCons}

\* Note { id: 1, note_type: NoteType::Text, created_at: row.get("created_at"), }
NoteExample ==
    <<"N", "SP", "x", ",", "SP", "V", ",", "SP", "C", "SP", "}">>

\* Note { id: 1, note_type, created_at: row.get("created_at"), }
NoteShorthandExample ==
    <<"N", "SP", "x", ",", "SP", "T", "SP", "C", "SP", "}">>

NoteTexts == ChunkTexts(NoteChunks, MaxNoteChunks) \cup {NoteExample, NoteShorthandExample}

TagsField      == <<"TG", "x", ",">>
CreatedAtField == <<"CK", "x", ",">>
OtherField     == <<"NK", "x", ",">>
ProjectIdsField == <<"PK", ",">>

\* Repo { tags: x, created_at: x,
RepoCons == <<"R">> \o TagsField \o <<"SP">> \o CreatedAtField

RepoChunks == {<<"R">>, TagsField, <<"TG", "x">>, CreatedAtField, OtherField,
               ProjectIdsField, <<"SP">>, <<"}">>, RepoCons}

RepoTexts == ChunkTexts(RepoChunks, MaxRepoChunks)

Last(s) == s[Len(s)]

----------------------------------------------------------------------------
(* The substitutions applied to bounded inputs *)

IdleNoteSub == nsIn = <<>> /\ nsOut = <<>>
IdleRepoSub == rsIn = <<>> /\ rsOut = <<>>
IdleNoteRun == /\ noteFile = [exists |-> FALSE, data |-> <<>>]
               /\ notePc = "idle" /\ noteWrites = 0 /\ noteOut = <<>>
IdleRepoRun == /\ fs = <<>> /\ pc = "idle" /\ idx = 0
               /\ out = <<>> /\ reads = <<>> /\ writes = <<>>

InitNoteSub ==
    /\ nsIn \in NoteTexts
    /\ nsOut = <<>>
    /\ IdleRepoSub /\ IdleNoteRun /\ IdleRepoRun /\ linesep = <<"LF">>

\* new_content = re.sub(pattern, replace_func, content, flags=re.DOTALL),
\* applied to the input and then to its own output
NoteApply ==
    /\ Len(nsOut) < MaxApply
    /\ nsOut' = Append(nsOut, NoteSub(IF nsOut = <<>> THEN nsIn ELSE Last(nsOut)))
    /\ UNCHANGED <<nsIn, repoSubVars, noteRunVars, repoRunVars, linesep>>

NextNoteSub == NoteApply
SpecNoteSub == InitNoteSub /\ [][NextNoteSub]_vars

InitRepoSub ==
    /\ rsIn \in RepoTexts
    /\ rsOut = <<>>
    /\ IdleNoteSub /\ IdleNoteRun /\ IdleRepoRun /\ linesep = <<"LF">>

RepoApply ==
    /\ Len(rsOut) < MaxApply
    /\ rsOut' = Append(rsOut, RepoSub(IF rsOut = <<>> THEN rsIn ELSE Last(rsOut)))
    /\ UNCHANGED <<rsIn, noteSubVars, noteRunVars, repoRunVars, linesep>>

NextRepoSub == RepoApply
SpecRepoSub == InitRepoSub /\ [][NextRepoSub]_vars

----------------------------------------------------------------------------
(* Files: open(path, "r").read() and open(path, "w").write(text) *)

\* f.read() of a file opened in text mode: universal newlines, \r\n and a
\* lone \r are both returned as \n
RECURSIVE Decode(_)
Decode(bytes) ==
    IF bytes = <<>> THEN <<>>
    ELSE IF bytes[1] = "CR"
         THEN IF Len(bytes) >= 2 /\ bytes[2] = "LF"
              THEN <<"LF">> \o Decode(SubSeq(bytes, 3, Len(bytes)))
              ELSE <<"LF">> \o Decode(Tail(bytes))
         ELSE <<bytes[1]>> \o Decode(Tail(bytes))

\* f.write() to a file opened in text mode: every \n is written as the
\* platform's line separator
RECURSIVE Encode(_, _)
Encode(text, sep) ==
    IF text = <<>> THEN <<>>
    ELSE (IF text[1] = "LF" THEN sep ELSE <<text[1]>>) \o Encode(Tail(text), sep)

LineSeps == {<<"LF">>, <<"CR", "LF">>}

Absent == [exists |-> FALSE, data |-> <<>>]
File(bytes) == [exists |-> TRUE, data |-> bytes]

\* what a write that fails midway can leave in the file: open(path, "w") has
\* truncated it, and some part of the new content may have reached it
Prefixes(bytes) == {SubSeq(bytes, 1, k) : k \in 0..(Len(bytes) - 1)}

----------------------------------------------------------------------------
(* fix_note.py: a run *)

NoteFileChunks == {<<"N", "T", "SP", "C", "}">>, <<"N", "x", ",", "}">>, <<"LF">>, <<"CR">>}

NoteFiles == {Absent} \cup {File(b) : b \in ChunkTexts(NoteFileChunks, MaxNoteFileChunks)}

InitNoteRun ==
    /\ noteFile \in NoteFiles
    /\ linesep \in LineSeps
    /\ notePc = "start"
    /\ noteWrites = 0
    /\ noteOut = <<>>
    /\ IdleNoteSub /\ IdleRepoSub /\ IdleRepoRun

\* the whole script, no I/O operation failing
NoteRun ==
    /\ notePc = "start"
    /\ noteFile.exists
    /\ LET content == Decode(noteFile.data)
           new_content == NoteSub(content)
       IN noteFile' = File(Encode(new_content, linesep))
    /\ noteWrites' = noteWrites + 1
    /\ noteOut' = Append(noteOut, "Fixed Note constructors")
    /\ notePc' = "done"
    /\ UNCHANGED <<noteSubVars, repoSubVars, repoRunVars, linesep>>

\* the first open() or the read() raises: nothing is written or printed
NoteRunReadFails ==
    /\ notePc = "start"
    /\ notePc' = "aborted"
    /\ UNCHANGED <<noteFile, noteWrites, noteOut, noteSubVars, repoSubVars, repoRunVars, linesep>>

\* the second open() raises (the file is left as it was), or the write()
\* raises after the file was truncated
NoteRunWriteFails ==
    /\ notePc = "start"
    /\ noteFile.exists
    /\ \E stage \in {"open", "write"} :
         IF stage = "open"
         THEN UNCHANGED <<noteFile, noteWrites>>
         ELSE /\ noteFile' \in {File(b) : b \in
                    Prefixes(Encode(NoteSub(Decode(noteFile.data)), linesep)) \cup {<<>>}}
              /\ noteWrites' = noteWrites + 1
    /\ notePc' = "aborted"
    /\ UNCHANGED <<noteOut, noteSubVars, repoSubVars, repoRunVars, linesep>>

NextNoteRun == NoteRun \/ NoteRunReadFails \/ NoteRunWriteFails
SpecNoteRun == InitNoteRun /\ [][NextNoteRun]_vars

----------------------------------------------------------------------------
(* fix_repo.py: a run *)

files_to_fix == <<"src/db/sqlite/repo_test.rs", "src/db/sqlite/critical_tests.rs">>
NumFiles == Len(files_to_fix)

RepoFileChunks == {<<"R", "TG", "x", ",", "SP", "CK", "x", ",", "}">>,
                   <<"R", "NK", "x", ",", "}">>, <<"LF">>, <<"CR">>}

RepoFiles == {Absent} \cup {File(b) : b \in ChunkTexts(RepoFileChunks, MaxRepoFileChunks)}

Status(kind, i) == [status |-> kind, path |-> files_to_fix[i]]

InitRepoRun ==
    /\ fs \in [1..NumFiles -> RepoFiles]
    /\ linesep \in LineSeps
    /\ pc = "loop"
    /\ idx = 1
    /\ out = <<>>
    /\ reads = <<>>
    /\ writes = <<>>
    /\ IdleNoteSub /\ IdleRepoSub /\ IdleNoteRun

\* the loop goes on to the next path, or ends after the last one
Advance ==
    /\ idx' = idx + 1
    /\ pc' = IF idx + 1 > NumFiles THEN "done" ELSE "loop"

\* a missing file ending the loop
FileNotFound_stops ==
    /\ pc = "loop"
    /\ ~fs[idx].exists
    /\ out' = Append(out, Status("File not found", idx))
    /\ pc' = "aborted"
    /\ UNCHANGED <<idx, fs, reads, writes, noteSubVars, repoSubVars, noteRunVars, linesep>>

\* else: print(f"File not found: {file_path}")
FileNotFound ==
    /\ pc = "loop"
    /\ ~fs[idx].exists
    /\ out' = Append(out, Status("File not found", idx))
    /\ Advance
    /\ UNCHANGED <<fs, reads, writes, noteSubVars, repoSubVars, noteRunVars, linesep>>

\* the file rewritten whether or not the substitution changed it
fix_repo_constructors_always_write ==
    /\ pc = "loop"
    /\ fs[idx].exists
    /\ reads' = Append(reads, idx)
    /\ LET content == Decode(fs[idx].data)
           new_content == RepoSub(content)
       IN /\ fs' = [fs EXCEPT ![idx] = File(Encode(new_content, linesep))]
          /\ writes' = Append(writes, idx)
          /\ out' = Append(out, Status(IF new_content # content THEN "Fixed"
                                       ELSE "No changes needed", idx))
    /\ Advance
    /\ UNCHANGED <<noteSubVars, repoSubVars, noteRunVars, linesep>>

\* fix_repo_constructors(file_path), no I/O operation failing
fix_repo_constructors ==
    /\ pc = "loop"
    /\ fs[idx].exists
    /\ reads' = Append(reads, idx)
    /\ LET content == Decode(fs[idx].data)
           new_content == RepoSub(content)
       IN IF new_content # content
          THEN /\ fs' = [fs EXCEPT ![idx] = File(Encode(new_content, linesep))]
               /\ writes' = Append(writes, idx)
               /\ out' = Append(out, Status("Fixed", idx))
          ELSE /\ UNCHANGED <<fs, writes>>
               /\ out' = Append(out, Status("No changes needed", idx))
    /\ Advance
    /\ UNCHANGED <<noteSubVars, repoSubVars, noteRunVars, linesep>>

\* fix_repo_constructors(file_path) where the first open() or the read()
\* raises: the exception is not caught and ends the script
FixReadFails ==
    /\ pc = "loop"
    /\ fs[idx].exists
    /\ pc' = "aborted"
    /\ UNCHANGED <<fs, idx, out, reads, writes, noteSubVars, repoSubVars, noteRunVars, linesep>>

\* the status printed before the write is attempted
FixWriteFails_status_first ==
    /\ pc = "loop"
    /\ fs[idx].exists
    /\ LET content == Decode(fs[idx].data)
           new_content == RepoSub(content)
       IN /\ new_content # content
          /\ \E stage \in {"open", "write"} :
               IF stage = "open"
               THEN UNCHANGED <<fs, writes>>
               ELSE /\ \E b \in Prefixes(Encode(new_content, linesep)) :
                         fs' = [fs EXCEPT ![idx] = File(b)]
                    /\ writes' = Append(writes, idx)
    /\ reads' = Append(reads, idx)
    /\ out' = Append(out, Status("Fixed", idx))
    /\ pc' = "aborted"
    /\ UNCHANGED <<idx, noteSubVars, repoSubVars, noteRunVars, linesep>>

\* fix_repo_constructors(file_path) where the second open() raises (the file
\* is left as it was) or the write() raises after the file was truncated
FixWriteFails ==
    /\ pc = "loop"
    /\ fs[idx].exists
    /\ LET content == Decode(fs[idx].data)
           new_content == RepoSub(content)
       IN /\ new_content # content
          /\ \E stage \in {"open", "write"} :
               IF stage = "open"
               THEN UNCHANGED <<fs, writes>>
               ELSE /\ \E b \in Prefixes(Encode(new_content, linesep)) :
                         fs' = [fs EXCEPT ![idx] = File(b)]
                    /\ writes' = Append(writes, idx)
    /\ reads' = Append(reads, idx)
    /\ pc' = "aborted"
    /\ UNCHANGED <<idx, out, noteSubVars, repoSubVars, noteRunVars, linesep>>

NextRepoRun == FileNotFound \/ fix_repo_constructors \/ FixReadFails \/ FixWriteFails
SpecRepoRun == InitRepoRun /\ [][NextRepoRun]_vars

\* an iteration of the for loop: every step of a run without failures is one,
\* and one can be taken as long as the loop has not ended
Iteration == pc = "loop" /\ idx' = idx + 1

\* runs in which no I/O operation fails; the loop is sequential code, so an
\* iteration that can be taken is taken
NextRepoOk == FileNotFound \/ fix_repo_constructors
SpecRepoOk == InitRepoRun /\ [][NextRepoOk]_vars /\ WF_idx(Iteration)

----------------------------------------------------------------------------
(* Properties of NoteFixer's substitution (SpecNoteSub) *)

Indices(text) == [i \in 1..Len(text) |-> i]

\* the positions of token tok in text, in order
Positions(text, tok) == SelectSeq(Indices(text), LAMBDA i : text[i] = tok)

CountTok(text, tok) == Len(Positions(text, tok))

\* frag stands directly before position j of text
FragmentBefore(text, j, frag) ==
    /\ j > Len(frag)
    /\ SubSeq(text, j - Len(frag), j - 1) = frag

\* the input of the a-th application
NoteInput(a) == IF a = 1 THEN nsIn ELSE nsOut[a - 1]

\* Note { id: 1, note_type, project_ids: vec![], // Empty ... separately\n
\*                     created_at: row.get("created_at"), }
NoteShorthandFixed ==
    <<"N", "SP", "x", ",", "SP", "T", "SP", "PK", ",", "SP", "CM", "LF", "IND20",
      "C", "SP", "}">>

\* C1 as stated: the substitution applied to the example text with the
\* explicit note_type value inserts the project_ids fragment and a line break
\* directly before the created_at assignment; the output differs from the
\* input and contains exactly one project_ids field.
C1_ExplicitValueFixed ==
    (nsIn = NoteExample /\ Len(nsOut) >= 1) =>
        /\ nsOut[1] # nsIn
        /\ CountTok(nsOut[1], "PK") = 1
        /\ \E j \in 1..Len(nsOut[1]) :
              /\ nsOut[1][j] = "C"
              /\ \/ FragmentBefore(nsOut[1], j, <<"PK", ",", "SP", "CM", "LF">>)
                 \/ FragmentBefore(nsOut[1], j, NoteFragment)

\* C1 amended: the example text with the explicit note_type value has no match
\* and comes out unchanged, without a project_ids field; the same text with
\* note_type written in shorthand gets the fragment, a line break and twenty
\* blanks inserted directly before the created_at assignment, exactly once.
C1_ShorthandOnly ==
    Len(nsOut) >= 1 =>
        /\ nsIn = NoteExample =>
              nsOut[1] = nsIn /\ CountTok(nsOut[1], "PK") = 0
        /\ nsIn = NoteShorthandExample =>
              nsOut[1] = NoteShorthandFixed /\ CountTok(nsOut[1], "PK") = 1

C1_Witness ==
    nsIn = NoteExample /\ Len(nsOut) >= 1 /\ nsOut[1] = NoteExample

\* C2 as stated: a second application of the substitution to its own output
\* changes nothing.
C2_Idempotent ==
    Len(nsOut) >= 2 => nsOut[2] = nsOut[1]

\* position j of text holds a created_at assignment preceded, across
\* whitespace only, by a note_type, token that lies after a Note { opener
\* with no } in between
NoteQualifies(text, j) ==
    /\ text[j] = "C"
    /\ \E t \in 1..(j - 1) :
          /\ text[t] = "T"
          /\ \A k \in (t + 1)..(j - 1) : InClass("space", text[k])
          /\ \E n \in 1..(t - 1) :
                /\ text[n] = "N"
                /\ \A k \in (n + 1)..(t - 1) : text[k] # "}"

\* C3 as stated: after one run every qualifying created_at assignment of the
\* input has the project_ids fragment directly before it (the k-th created_at
\* of the output is the k-th created_at of the input).
C3_EveryConstructionFixed ==
    Len(nsOut) >= 1 =>
        LET ci == Positions(nsIn, "C")
            co == Positions(nsOut[1], "C")
        IN /\ Len(ci) = Len(co)
           /\ \A k \in 1..Len(ci) :
                 NoteQualifies(nsIn, ci[k]) => FragmentBefore(nsOut[1], co[k], NoteFragment)

\* o is text with frag inserted directly before the second group of every
\* match of pat (g is the item where the second group starts), and with
\* nothing else changed
InsertedOnly(text, o, pat, g, frag) ==
    LET ms == FindAll(pat, text, 1)
        start(k) == ms[k][g] + (k - 1) * Len(frag)
        inserted == {start(k) + d : k \in 1..Len(ms), d \in 0..(Len(frag) - 1)}
        kept == SelectSeq(Indices(o), LAMBDA i : i \notin inserted)
    IN /\ Len(o) = Len(text) + Len(ms) * Len(frag)
       /\ \A k \in 1..Len(ms) :
             /\ SubSeq(o, start(k), start(k) + Len(frag) - 1) = frag
             /\ o[start(k) + Len(frag)] = text[ms[k][g]]
       /\ [i \in 1..Len(kept) |-> o[kept[i]]] = text

\* C4: the output of every application is its input with the project_ids
\* fragment inserted directly before each matched created_at assignment, one
\* fragment per match, and deleting the inserted fragments gives the input
\* back token for token.
C4_OnlyInsertions ==
    \A a \in 1..Len(nsOut) :
        InsertedOnly(NoteInput(a), nsOut[a], note_pattern, NoteGroup2, NoteFragment)

C4_Witness ==
    /\ Len(nsOut) >= 1
    /\ Len(FindAll(note_pattern, nsIn, 1)) = 2
    /\ \E j \in 1..Len(nsIn) : nsIn[j] = "SP" /\ j < Len(nsIn) /\ nsIn[j + 1] = "C"

----------------------------------------------------------------------------
(* Properties of RepoFixer's substitution (SpecRepoSub) *)

RepoInput(a) == IF a = 1 THEN rsIn ELSE rsOut[a - 1]

\* position j of text holds the key of a created_at assignment with a value
\* and its comma
CreatedAtAssignment(text, j) ==
    /\ text[j] = "CK"
    /\ \E e \in (j + 1)..Len(text) :
          /\ text[e] = ","
          /\ \A k \in (j + 1)..(e - 1) : InClass("notcommanl", text[k])

\* position t of text holds the key of a tags field that lies after a Repo {
\* opener with no } in between
TagsOfRepo(text, t) ==
    /\ text[t] = "TG"
    /\ \E n \in 1..(t - 1) :
          /\ text[n] = "R"
          /\ \A k \in (n + 1)..(t - 1) : text[k] # "}"

\* the created_at assignment at j follows a tags field of a Repo construction
\* directly: after the tags value (no comma, no newline) come at most one
\* comma and whitespace only
TagsAdjacent(text, j) ==
    /\ CreatedAtAssignment(text, j)
    /\ \E t \in 1..(j - 1) :
          /\ TagsOfRepo(text, t)
          /\ \E a \in (t + 1)..j :
                /\ \A k \in (t + 1)..(a - 1) : InClass("notcommanl", text[k])
                /\ \/ \A k \in a..(j - 1) : InClass("space", text[k])
                   \/ /\ a < j
                      /\ text[a] = ","
                      /\ \A k \in (a + 1)..(j - 1) : InClass("space", text[k])

\* the created_at assignment at j follows a tags field of the same Repo
\* construction, other fields possibly lying between the two
TagsEventually(text, j) ==
    /\ CreatedAtAssignment(text, j)
    /\ \E t \in 1..(j - 1) :
          /\ TagsOfRepo(text, t)
          /\ \E c \in (t + 1)..(j - 1) :
                /\ text[c] = ","
                /\ \A k \in (t + 1)..(c - 1) : InClass("notcommanl", text[k])
                /\ \A k \in (c + 1)..(j - 1) : text[k] \notin {"}", "R"}

\* the k-th created_at key of the output got a fragment that the k-th
\* created_at key of the input did not have
FragmentAdded(text, o, k) ==
    /\ FragmentBefore(o, Positions(o, "CK")[k], RepoFragment)
    /\ ~FragmentBefore(text, Positions(text, "CK")[k], RepoFragment)

\* C8 as stated: every created_at assignment that follows a tags field of its
\* Repo construction, directly or after other fields, has the project_ids
\* fragment directly before it after the run.
C8_TagsEventually ==
    Len(rsOut) >= 1 =>
        LET ci == Positions(rsIn, "CK")
            co == Positions(rsOut[1], "CK")
        IN /\ Len(ci) = Len(co)
           /\ \A k \in 1..Len(ci) :
                 TagsEventually(rsIn, ci[k]) => FragmentBefore(rsOut[1], co[k], RepoFragment)

\* C8 amended: a fragment is inserted only directly before a created_at
\* assignment that follows the tags field directly (tags value, at most one
\* comma, whitespace only); a created_at assignment separated from the tags
\* field by another field gets none, and a text with at least one direct
\* tags-created_at adjacency in a Repo construction gets at least one.
C8_TagsAdjacentOnly ==
    \A a \in 1..Len(rsOut) :
        LET text == RepoInput(a)
            ci == Positions(text, "CK")
            co == Positions(rsOut[a], "CK")
        IN /\ Len(ci) = Len(co)
           /\ \A k \in 1..Len(ci) :
                 FragmentAdded(text, rsOut[a], k) => TagsAdjacent(text, ci[k])
           /\ (\E k \in 1..Len(ci) : TagsAdjacent(text, ci[k])) =>
                 (\E k \in 1..Len(ci) : FragmentAdded(text, rsOut[a], k))

\* a Repo construction with another field between tags and created_at: no
\* insertion
C8_Witness ==
    /\ Len(rsOut) >= 1
    /\ rsIn = <<"R">> \o TagsField \o OtherField \o CreatedAtField
    /\ rsOut[1] = rsIn

\* the tokens of the Repo construction around position j: from the last
\* Repo { before j to the first } after j
Construction(text, j) ==
    LET opens == {n \in 1..j : text[n] = "R"}
        closes == {c \in j..Len(text) : text[c] = "}"}
        lo == IF opens = {} THEN 1 ELSE CHOOSE n \in opens : \A m \in opens : m <= n
        hi == IF closes = {} THEN Len(text) ELSE CHOOSE c \in closes : \A d \in closes : c <= d
    IN SubSeq(text, lo, hi)

\* C10 as stated: no fragment is inserted into a Repo construction that
\* already contains a project_ids field, so no construction that had at most
\* one has two after the run, and a second run over the output changes
\* nothing.
C10_OnlyMissing ==
    /\ Len(rsOut) >= 1 =>
          LET ci == Positions(rsIn, "CK")
              co == Positions(rsOut[1], "CK")
          IN \A k \in 1..Len(ci) :
                FragmentAdded(rsIn, rsOut[1], k) =>
                   /\ CountTok(Construction(rsIn, ci[k]), "PK") = 0
                   /\ CountTok(Construction(rsOut[1], co[k]), "PK") = 1
    /\ Len(rsOut) >= 2 => rsOut[2] = rsOut[1]

----------------------------------------------------------------------------
(* Properties of a RepoFixer run (SpecRepoRun, SpecRepoOk) *)

InSeq(s, e) == \E i \in 1..Len(s) : s[i] = e

\* C5: a step that processes an existing file without an I/O failure writes
\* the file if and only if the substitution changed the content.  Without a
\* match of the Repo pattern nothing is written, no file changes and the
\* status is 'No changes needed'; with a match the file gets the substituted
\* content and the status is 'Fixed'.
C5_WriteIffChanged ==
    [][(pc = "loop" /\ fs[idx].exists /\ pc' # "aborted") =>
         LET content == Decode(fs[idx].data)
             matched == FindAll(repo_pattern, content, 1) # <<>>
         IN /\ (writes' # writes) <=> (RepoSub(content) # content)
            /\ ~matched =>
                  /\ fs' = fs
                  /\ writes' = writes
                  /\ out' = Append(out, Status("No changes needed", idx))
            /\ matched =>
                  /\ fs' = [fs EXCEPT ![idx] = File(Encode(RepoSub(content), linesep))]
                  /\ fs'[idx] # fs[idx]
                  /\ writes' = Append(writes, idx)
                  /\ out' = Append(out, Status("Fixed", idx))]_vars

C5_Witness ==
    /\ pc = "done"
    /\ out[1].status = "No changes needed" /\ ~InSeq(writes, 1)
    /\ out[2].status = "Fixed" /\ InSeq(writes, 2)

AllReported ==
    /\ Len(out) = NumFiles
    /\ \A i \in 1..NumFiles :
          /\ out[i].path = files_to_fix[i]
          /\ out[i].status \in {"File not found", "No changes needed", "Fixed"}
          /\ (out[i].status = "File not found") <=> ~fs[i].exists
          /\ ~fs[i].exists => ~InSeq(reads, i) /\ ~InSeq(writes, i)
          /\ fs[i].exists => InSeq(reads, i)

\* C6: in a run without I/O failures every path of the list gets exactly one
\* status, in list order; a missing path gets 'File not found', is neither
\* read, created nor written, and the paths after it are still processed;
\* the run ends normally.
C6_EveryPathReported ==
    /\ [](pc = "done" => AllReported)
    /\ [](pc # "aborted")
    /\ <>(pc = "done")

C6_Witness ==
    /\ pc = "done"
    /\ ~fs[1].exists /\ out[1].status = "File not found"
    /\ fs[2].exists /\ out[2].status = "Fixed"

\* C9: an I/O failure while a file is processed ends the run: no status is
\* emitted for that file, no other file is changed (a file fixed before keeps
\* its written content), the paths after it are neither read nor written, and
\* nothing happens afterwards.
C9_FailureAborts ==
    [][/\ (pc = "loop" /\ pc' = "aborted") =>
             /\ out' = out
             /\ idx' = idx
             /\ \A i \in 1..NumFiles : i # idx => fs'[i] = fs[i]
       /\ pc' = "aborted" =>
             /\ Len(out') = idx' - 1
             /\ \A i \in (idx' + 1)..NumFiles : ~InSeq(reads', i) /\ ~InSeq(writes', i)
             /\ \A i \in 1..(idx' - 1) :
                   out'[i].status = "Fixed" =>
                      /\ InSeq(writes', i)
                      /\ CountTok(fs'[i].data, "PK") >= 1
       /\ pc = "aborted" => UNCHANGED vars]_vars

C9_Witness ==
    /\ pc = "aborted"
    /\ idx = 2
    /\ out = <<Status("Fixed", 1)>>
    /\ InSeq(writes, 1)
    /\ CountTok(fs[1].data, "PK") = 1

----------------------------------------------------------------------------
(* Properties of a NoteFixer run (SpecNoteRun) *)

\* C7 as stated: a successful run writes the file and prints the
\* confirmation whether or not the pattern matched, and without a match the
\* file's content after the run equals its content before.
C7_RoundTrip ==
    [][(notePc = "start" /\ notePc' = "done") =>
          /\ noteWrites' = noteWrites + 1
          /\ noteOut' = <<"Fixed Note constructors">>
          /\ FindAll(note_pattern, Decode(noteFile.data), 1) = <<>> =>
                noteFile'.data = noteFile.data]_vars

====
